---- MODULE Spec2Model ----
\* A model of rs-bucket-filter: the bloom gate and its signature store
\* (src/src/bloom.rs), the exact-membership gate and its bucket set
\* (src/src/cache.rs), the sub-bucket fetch and the pushdown decision
\* (src/src/sub.rs), driven by the closures of the two example programs.
EXTENDS Integers, Sequences, FiniteSets, TLC

VARIABLES
    bloom_bits,  \* BTreeMap<Bucket, BloomBits>: a function whose domain is the key set
    cache,       \* BTreeSet<Bucket>
    op,          \* the last library call: [name, arg]
    ret,         \* what the last library call returned: a Result
    trace,       \* the calls the last library call made to caller-supplied closures, in order
    listed,      \* what the bucket lister returned to the most recent cache refresh
    pending      \* the refresh that has cleared its store and waits for its lister

vars == <<bloom_bits, cache, op, ret, trace, listed, pending>>

\* ---------------------------------------------------------------- bounds

\* Longest list the signature-pair lister returns.
MaxPairs == 2

\* Longest list the bucket lister returns.
MaxNames == 2

\* Longest sequence the sub-bucket fetcher returns, the test's five items apart.
MaxSubs == 2

\* Largest finite f32 among the weights and the estimates.
MaxF32 == 2

\* ------------------------------------------------------- values and types

\* Result<T, Event>
Ok(v) == [ok |-> TRUE, val |-> v]

Err(e) == [ok |-> FALSE, val |-> e]

\* enum Event
UnexpectedError(msg) == [kind |-> "UnexpectedError", msg |-> msg]

UnableToConnect(msg) == [kind |-> "UnableToConnect", msg |-> msg]

\* struct Bucket { name }, built without any check
new_checked(checked) == [name |-> checked]

\* A call of a caller-supplied closure, as the trace records it.
Call(fn, arg, res) == [fn |-> fn, arg |-> arg, res |-> res]

\* A call of a lister, with the store as it is while the lister runs.
CallAt(fn, arg, res, store) == [fn |-> fn, arg |-> arg, res |-> res, store |-> store]

CallsOf(tr, fn) == SelectSeq(tr, LAMBDA c : c.fn = fn)

\* Sequences over S of length at most n.
SeqUpTo(S, n) == UNION {[1..k -> S] : k \in 0..n}

\* The empty BTreeMap.
EmptyMap == [b \in {} |-> 0]

\* --------------------------------------------- the example's BloomBits

\* u128 & u128
RECURSIVE BitAnd(_, _)
BitAnd(a, b) ==
    IF a = 0 \/ b = 0 THEN 0
    ELSE (a % 2) * (b % 2) + 2 * BitAnd(a \div 2, b \div 2)

\* u128 | u128
RECURSIVE BitOr(_, _)
BitOr(a, b) ==
    IF a = 0 THEN b
    ELSE IF b = 0 THEN a
    ELSE (IF a % 2 = 1 \/ b % 2 = 1 THEN 1 ELSE 0) + 2 * BitOr(a \div 2, b \div 2)

\* struct BloomBits { packed: [u128; 2] }
BloomBits(lo, hi) == [packed |-> <<lo, hi>>]

BloomBitsDefault == BloomBits(0, 0)

and_lo(self, other) == BitAnd(self.packed[1], other.packed[1])

and_hi(self, other) == BitAnd(self.packed[2], other.packed[2])

and(self, other) == BloomBits(and_lo(self, other), and_hi(self, other))

\* struct FilterDatabase { datname }
FilterDatabase(datname) == [datname |-> datname]

db_hash(f) ==
    CASE f.datname = "postgres" -> BloomBits(\H333, \H634)
      [] f.datname = "template0" -> BloomBits(\H599, \H3776)
      [] f.datname = "templateZ" -> BloomBits(\H599, \H3776)
      [] OTHER -> BloomBitsDefault

\* The comparison made against the first argument instead of the second.
db_check_swapped(a, b) == IF and(a, b) = a THEN "MayExist" ELSE "Missing"

\* The comparator of the example: MayExist iff (a AND b) = b.
db_check(a, b) == IF and(a, b) = b THEN "MayExist" ELSE "Missing"

\* ------------------------------------------------------------ bloom.rs

\* BTreeMap::insert: the map afterwards.
MapInsert(m, k, v) == [x \in DOMAIN m \cup {k} |-> IF x = k THEN v ELSE m[x]]

\* The lookup's None arm lost: an absent bucket compared as if it held no bits.
bloom_check_no_lookup(bits, filter, b) ==
    LET computed == db_hash(filter)
        found == IF b \in DOMAIN bits THEN bits[b] ELSE BloomBitsDefault
        r == db_check(found, computed)
    IN [ret |-> r,
        calls |-> <<Call("hash", <<filter>>, computed),
                    Call("check", <<found, computed>>, r)>>]

\* The comparator given its arguments in the other order.
bloom_check_swapped(bits, filter, b) ==
    IF b \notin DOMAIN bits
    THEN [ret |-> "Missing", calls |-> <<>>]
    ELSE LET found == bits[b]
             computed == db_hash(filter)
             r == db_check(computed, found)
         IN [ret |-> r,
             calls |-> <<Call("hash", <<filter>>, computed),
                         Call("check", <<computed, found>>, r)>>]

\* bloom_check as bloom_check_new(db_hash, db_check) instantiates it:
\* the decision and the calls of hash and check it makes.
bloom_check(bits, filter, b) ==
    IF b \notin DOMAIN bits
    THEN [ret |-> "Missing", calls |-> <<>>]
    ELSE LET found == bits[b]
             computed == db_hash(filter)
             r == db_check(found, computed)
         IN [ret |-> r,
             calls |-> <<Call("hash", <<filter>>, computed),
                         Call("check", <<found, computed>>, r)>>]

\* The getter invoked whatever the decision.
get_or_skip_if_missing_always(bits, bucket, getter, filter) ==
    LET bloom == bloom_check(bits, filter, bucket)
        decided == Call("bloom", <<bucket, filter>>, bloom.ret)
    IN [ret |-> getter,
        calls |-> bloom.calls \o <<decided, Call("getter", <<bucket, filter>>, getter)>>]

\* The getter's error replaced by an empty result.
get_or_skip_if_missing_swallow(bits, bucket, getter, filter) ==
    LET bloom == bloom_check(bits, filter, bucket)
        decided == Call("bloom", <<bucket, filter>>, bloom.ret)
    IN IF bloom.ret = "Missing"
       THEN [ret |-> Ok(<<>>), calls |-> bloom.calls \o <<decided>>]
       ELSE [ret |-> IF getter.ok THEN getter ELSE Ok(<<>>),
             calls |-> bloom.calls \o <<decided, Call("getter", <<bucket, filter>>, getter)>>]

\* get_or_skip_if_missing with bloom = |b, f| bloom_check(bits, f, b);
\* getter is what the caller's getter returns if it is called.
get_or_skip_if_missing(bits, bucket, getter, filter) ==
    LET bloom == bloom_check(bits, filter, bucket)
        decided == Call("bloom", <<bucket, filter>>, bloom.ret)
    IN IF bloom.ret = "Missing"
       THEN [ret |-> Ok(<<>>), calls |-> bloom.calls \o <<decided>>]
       ELSE [ret |-> getter,
             calls |-> bloom.calls \o <<decided, Call("getter", <<bucket, filter>>, getter)>>]

\* The fold counting every pair, a repeated key included.
RECURSIVE InsertPairsCountAll(_, _, _)
InsertPairsCountAll(v, m, tot) ==
    IF v = <<>> THEN [bloom_bits |-> m, tot |-> tot]
    ELSE InsertPairsCountAll(Tail(v), MapInsert(m, Head(v)[1], Head(v)[2]), 1 + tot)

\* The fold keeping the signature a key already has (entry().or_insert).
RECURSIVE InsertPairsKeepFirst(_, _, _)
InsertPairsKeepFirst(v, m, tot) ==
    IF v = <<>> THEN [bloom_bits |-> m, tot |-> tot]
    ELSE LET bucket == Head(v)[1]
             bits == Head(v)[2]
         IN IF bucket \in DOMAIN m
            THEN InsertPairsKeepFirst(Tail(v), m, tot)
            ELSE InsertPairsKeepFirst(Tail(v), MapInsert(m, bucket, bits), 1 + tot)

\* The fold of update_bloom_bits over the fetched pairs: the map and the count.
RECURSIVE InsertPairs(_, _, _)
InsertPairs(v, m, tot) ==
    IF v = <<>> THEN [bloom_bits |-> m, tot |-> tot]
    ELSE LET bucket == Head(v)[1]
             bits == Head(v)[2]
         IN InsertPairs(Tail(v), MapInsert(m, bucket, bits),
                        IF bucket \in DOMAIN m THEN tot ELSE 1 + tot)

\* The refresh without its clear: the pairs are inserted over the old entries.
update_bloom_bits_no_clear(bits, get_bloom_bits, bloom_bucket) ==
    LET called == <<CallAt("get_bloom_bits", <<bloom_bucket>>, get_bloom_bits, bits)>>
    IN IF ~get_bloom_bits.ok
       THEN [bloom_bits |-> bits, ret |-> get_bloom_bits, calls |-> called]
       ELSE LET done == InsertPairs(get_bloom_bits.val, bits, 0)
            IN [bloom_bits |-> done.bloom_bits, ret |-> Ok(done.tot), calls |-> called]

\* update_bloom_bits; get_bloom_bits is what the caller's lister returns.
update_bloom_bits(bits, get_bloom_bits, bloom_bucket) ==
    LET cleared == EmptyMap
        called == <<CallAt("get_bloom_bits", <<bloom_bucket>>, get_bloom_bits, cleared)>>
    IN IF ~get_bloom_bits.ok
       THEN [bloom_bits |-> cleared, ret |-> get_bloom_bits, calls |-> called]
       ELSE LET done == InsertPairs(get_bloom_bits.val, cleared, 0)
            IN [bloom_bits |-> done.bloom_bits, ret |-> Ok(done.tot), calls |-> called]

\* A clear that leaves the map as it was.
bloom_bits_keep(bits) == bits

\* bloom_bits.clear(), the first statement of update_bloom_bits.
bloom_bits_clear(bits) == EmptyMap

\* update_bloom_bits after its clear: the lister's result, `?`, the fold into
\* the map as it stands.
repopulate_bloom_bits(bits, get_bloom_bits, bloom_bucket) ==
    LET called == <<CallAt("get_bloom_bits", <<bloom_bucket>>, get_bloom_bits, bits)>>
    IN IF ~get_bloom_bits.ok
       THEN [bloom_bits |-> bits, ret |-> get_bloom_bits, calls |-> called]
       ELSE LET done == InsertPairs(get_bloom_bits.val, bits, 0)
            IN [bloom_bits |-> done.bloom_bits, ret |-> Ok(done.tot), calls |-> called]

\* ------------------------------------------------- inputs of the bloom gate

BloomBuckets ==
    {new_checked(n) : n \in {"pg_database", "pg_class", "pg_database_NOT_EXIST"}}

BloomScopes == {new_checked("bloom_2022_12_27")}

FilterDatabases ==
    {FilterDatabase(n) : n \in {"postgres", "template0", "templateZ", "other"}}

\* The signatures a lister may return: those of the example and their parts.
BloomBitsVals ==
    {BloomBitsDefault,
     BloomBits(\H333, \H634),
     BloomBits(\H599, \H3776),
     BloomBits(BitOr(\H333, \H599), BitOr(\H634, \H3776))}

Events ==
    {UnexpectedError("Unable to get strings"),
     UnableToConnect("Unable to connect to postgres")}

\* The buckets the slow source holds: pg_database_NOT_EXIST is never listed.
ListedBloomBuckets == {new_checked(n) : n \in {"pg_database", "pg_class"}}

BloomListerResults ==
    {Ok(v) : v \in SeqUpTo(ListedBloomBuckets \X BloomBitsVals, MaxPairs)}
        \cup {Err(e) : e \in Events}

GetterResults ==
    {Ok(<<>>), Ok(<<"C">>), Err(UnexpectedError("Unable to get strings"))}

\* ------------------------------------------------------------ cache.rs

\* The predicate of the example: |n| cache.contains(n).
f_cache(set, n) == n \in set

\* get_or_skip_if_bucket_missing with cache = f_cache over set;
\* getter is what the caller's getter returns if it is called.
get_or_skip_if_bucket_missing_inverted(set, bucket, getter, filter) ==
    LET bucket_exists == f_cache(set, bucket)
        asked == Call("cache", <<bucket>>, bucket_exists)
    IN IF ~bucket_exists
       THEN [ret |-> getter,
             calls |-> <<asked, Call("getter", <<bucket, filter>>, getter)>>]
       ELSE [ret |-> Ok(<<>>), calls |-> <<asked>>]

get_or_skip_if_bucket_missing(set, bucket, getter, filter) ==
    LET bucket_exists == f_cache(set, bucket)
        asked == Call("cache", <<bucket>>, bucket_exists)
    IN IF bucket_exists
       THEN [ret |-> getter,
             calls |-> <<asked, Call("getter", <<bucket, filter>>, getter)>>]
       ELSE [ret |-> Ok(<<>>), calls |-> <<asked>>]

\* The fold counting every name, a repeated one included.
RECURSIVE InsertBucketsCountAll(_, _, _)
InsertBucketsCountAll(buckets, set, tot) ==
    IF buckets = <<>> THEN [cache |-> set, tot |-> tot]
    ELSE InsertBucketsCountAll(Tail(buckets), set \cup {Head(buckets)}, 1 + tot)

\* The fold of update_cache_btree over the buckets: the set and the count.
RECURSIVE InsertBuckets(_, _, _)
InsertBuckets(buckets, set, tot) ==
    IF buckets = <<>> THEN [cache |-> set, tot |-> tot]
    ELSE LET bucket == Head(buckets)
             inserted == bucket \notin set
         IN InsertBuckets(Tail(buckets), set \cup {bucket},
                          IF inserted THEN 1 + tot ELSE tot)

\* The refresh without its clear: a plausible slip.
update_cache_btree_no_clear(set, list_buckets) ==
    LET called == <<CallAt("list_buckets", <<>>, list_buckets, set)>>
    IN IF ~list_buckets.ok
       THEN [cache |-> set, ret |-> list_buckets, calls |-> called]
       ELSE LET bucket_names == list_buckets.val
                buckets == [i \in DOMAIN bucket_names |-> new_checked(bucket_names[i])]
                done == InsertBuckets(buckets, set, 0)
            IN [cache |-> done.cache, ret |-> Ok(done.tot), calls |-> called]

\* update_cache_btree; list_buckets is what the caller's lister returns.
update_cache_btree(set, list_buckets) ==
    LET cleared == {}
        called == <<CallAt("list_buckets", <<>>, list_buckets, cleared)>>
    IN IF ~list_buckets.ok
       THEN [cache |-> cleared, ret |-> list_buckets, calls |-> called]
       ELSE LET bucket_names == list_buckets.val
                buckets == [i \in DOMAIN bucket_names |-> new_checked(bucket_names[i])]
                done == InsertBuckets(buckets, cleared, 0)
            IN [cache |-> done.cache, ret |-> Ok(done.tot), calls |-> called]

\* A clear that leaves the set as it was.
cache_keep(set) == set

\* cache.clear(), the first statement of update_cache_btree.
cache_clear(set) == {}

\* update_cache_btree after its clear: the lister's result, `?`, the fold into
\* the set as it stands.
repopulate_cache_btree(set, list_buckets) ==
    LET called == <<CallAt("list_buckets", <<>>, list_buckets, set)>>
    IN IF ~list_buckets.ok
       THEN [cache |-> set, ret |-> list_buckets, calls |-> called]
       ELSE LET bucket_names == list_buckets.val
                buckets == [i \in DOMAIN bucket_names |-> new_checked(bucket_names[i])]
                done == InsertBuckets(buckets, set, 0)
            IN [cache |-> done.cache, ret |-> Ok(done.tot), calls |-> called]

\* ------------------------------------------------ inputs of the cache gate

\* The table names the slow source may list.
ListedNames == {"pg_class", "pg_database", "pg_index"}

CacheBuckets == {new_checked(n) : n \in ListedNames \cup {"pg_database_NOT_EXIST"}}

CacheFilters == {FilterDatabase(n) : n \in {"template0", "postgres"}}

NameListerResults ==
    {Ok(v) : v \in SeqUpTo(ListedNames, MaxNames)} \cup {Err(e) : e \in Events}

\* -------------------------------------------------------------- sub.rs

\* Option<&C>
None == <<>>

Some(x) == <<x>>

\* The tests' SubBucket { id, data } and Filter { id_lbi, id_ubi }.
SubBucket(id) == [id |-> id, data |-> <<>>]

Filter(lbi, ubi) == [id_lbi |-> lbi, id_ubi |-> ubi]

\* The tests' local filter: keeps the items with id_lbi <= id <= id_ubi.
local_filter(v, f) == SelectSeq(v, LAMBDA s : f.id_lbi <= s.id /\ s.id <= f.id_ubi)

\* get_sub_buckets; fetched is what the caller's fetcher returns.
get_sub_buckets_fetch_all(b, fetched, filter_config, push_down, double_check) ==
    LET get_all == TRUE
        called == <<Call("get_sub_buckets", <<b, None>>, fetched)>>
    IN IF ~fetched.ok
       THEN [ret |-> fetched, calls |-> called]
       ELSE LET sub_buckets == fetched.val
                local_filter_required == ~push_down \/ double_check
            IN IF local_filter_required
               THEN LET kept == local_filter(sub_buckets, filter_config)
                    IN [ret |-> Ok(kept),
                        calls |-> called \o
                            <<Call("filter", <<sub_buckets, filter_config>>, kept)>>]
               ELSE [ret |-> Ok(sub_buckets), calls |-> called]

get_sub_buckets_always_filter(b, fetched, filter_config, push_down, double_check) ==
    LET get_all == ~push_down
        called == <<Call("get_sub_buckets",
                         <<b, IF get_all THEN None ELSE Some(filter_config)>>, fetched)>>
    IN IF ~fetched.ok
       THEN [ret |-> fetched, calls |-> called]
       ELSE LET sub_buckets == fetched.val
                kept == local_filter(sub_buckets, filter_config)
            IN [ret |-> Ok(kept),
                calls |-> called \o
                    <<Call("filter", <<sub_buckets, filter_config>>, kept)>>]

\* A failed fetch tried a second time before the error is returned.
get_sub_buckets_retry(b, fetched, filter_config, push_down, double_check) ==
    LET get_all == ~push_down
        called == <<Call("get_sub_buckets",
                         <<b, IF get_all THEN None ELSE Some(filter_config)>>, fetched)>>
    IN IF ~fetched.ok
       THEN [ret |-> fetched, calls |-> called \o called]
       ELSE LET sub_buckets == fetched.val
                local_filter_required == get_all \/ double_check
            IN IF local_filter_required
               THEN LET kept == local_filter(sub_buckets, filter_config)
                    IN [ret |-> Ok(kept),
                        calls |-> called \o
                            <<Call("filter", <<sub_buckets, filter_config>>, kept)>>]
               ELSE [ret |-> Ok(sub_buckets), calls |-> called]

get_sub_buckets(b, fetched, filter_config, push_down, double_check) ==
    LET get_all == ~push_down
        called == <<Call("get_sub_buckets",
                         <<b, IF get_all THEN None ELSE Some(filter_config)>>, fetched)>>
    IN IF ~fetched.ok
       THEN [ret |-> fetched, calls |-> called]
       ELSE LET sub_buckets == fetched.val
                local_filter_required == get_all \/ double_check
            IN IF local_filter_required
               THEN LET kept == local_filter(sub_buckets, filter_config)
                    IN [ret |-> Ok(kept),
                        calls |-> called \o
                            <<Call("filter", <<sub_buckets, filter_config>>, kept)>>]
               ELSE [ret |-> Ok(sub_buckets), calls |-> called]

\* The closure with the pushdown answer and double_check in each other's place.
get_sub_buckets_new_swapped(get_sub, pushdown, b, cfg, double_check) ==
    LET remote_check == pushdown[cfg]
        out == get_sub_buckets(b, get_sub, cfg, double_check, remote_check)
    IN [ret |-> out.ret,
        calls |-> <<Call("pushdown", <<cfg>>, remote_check)>> \o out.calls]

\* The closure get_sub_buckets_new returns; get_sub is what the fetcher it was
\* built with returns, pushdown the predicate it was built with, a function of
\* the config (the filter it was built with is local_filter).
get_sub_buckets_new(get_sub, pushdown, b, cfg, double_check) ==
    LET remote_check == pushdown[cfg]
        out == get_sub_buckets(b, get_sub, cfg, remote_check, double_check)
    IN [ret |-> out.ret,
        calls |-> <<Call("pushdown", <<cfg>>, remote_check)>> \o out.calls]

\* f32, as far as the decision needs it: a finite value, +infinity or NaN.
Fin(n) == [k |-> "fin", v |-> n]

Inf == [k |-> "inf", v |-> 0]

NaN == [k |-> "nan", v |-> 0]

\* f32 * f32 on non-negative operands: 0 * inf is NaN, NaN spreads.
F32Mul(a, b) ==
    IF a.k = "nan" \/ b.k = "nan" THEN NaN
    ELSE IF a.k = "inf" THEN (IF b = Fin(0) THEN NaN ELSE Inf)
    ELSE IF b.k = "inf" THEN (IF a = Fin(0) THEN NaN ELSE Inf)
    ELSE Fin(a.v * b.v)

\* f32 < f32: false as soon as an operand is NaN.
F32Lt(a, b) ==
    IF a.k = "nan" \/ b.k = "nan" THEN FALSE
    ELSE IF a.k = "inf" THEN FALSE
    ELSE IF b.k = "inf" THEN TRUE
    ELSE a.v < b.v

\* f32 >= f32: false as soon as an operand is NaN.
F32Ge(a, b) ==
    IF a.k = "nan" \/ b.k = "nan" THEN FALSE
    ELSE IF a.k = "inf" THEN TRUE
    ELSE IF b.k = "inf" THEN FALSE
    ELSE a.v >= b.v

\* The closure of pushdown_by_storage_new applied to a config whose
\* estimates are estimate_ix_scan and estimate_sq_scan.
pushdown_by_storage_strict(estimate_ix_scan, estimate_sq_scan, ix_scan_cost, sq_scan_cost) ==
    LET ix_cost == F32Mul(ix_scan_cost, estimate_ix_scan)
        sq_cost == F32Mul(sq_scan_cost, estimate_sq_scan)
    IN F32Lt(ix_cost, sq_cost)

pushdown_by_storage_new(estimate_ix_scan, estimate_sq_scan, ix_scan_cost, sq_scan_cost) ==
    LET ix_cost == F32Mul(ix_scan_cost, estimate_ix_scan)
        sq_cost == F32Mul(sq_scan_cost, estimate_sq_scan)
        scan_all == F32Lt(sq_cost, ix_cost)
        filter_by_remote == ~scan_all
    IN filter_by_remote

\* ------------------------------------------------------ inputs of sub.rs

TestBucket == new_checked("items_2023_01_01_cafef00ddeadbeafface864299792458")

\* The five items of the tests, ids 0x42 to 0x46.
TestItems == [i \in 1..5 |-> SubBucket(\H41 + i)]

SubFilters == {Filter(\H43, \H45), Filter(0, 0), Filter(\H44, \H46)}

FetchedResults ==
    {Ok(v) : v \in SeqUpTo({SubBucket(i) : i \in {\H42, \H44, \H46}}, MaxSubs)
                      \cup {TestItems}}
        \cup {Err(e) : e \in Events}

F32Vals == {Fin(n) : n \in 0..MaxF32} \cup {Inf, NaN}

\* ---------------------------------------------------------------- actions

\* No refresh is between its clear and its repopulation.
NoPending == [name |-> "none", arg |-> <<>>, before |-> {}, res |-> Ok(<<>>)]

Init ==
    /\ bloom_bits = EmptyMap
    /\ cache = {}
    /\ op = [name |-> "none", arg |-> <<>>]
    /\ ret = Ok(<<>>)
    /\ trace = <<>>
    /\ listed = [name |-> "none", res |-> Ok(<<>>)]
    /\ pending = NoPending

\* Whether the call before this one was the same refresh and its lister
\* returned r too.
SameListAgain(name, r) ==
    /\ op.name = name
    /\ trace[1].res.ok = r.ok
    /\ trace[1].res.val = r.val

\* op.arg of a refresh: its arguments, then the keys the store held when it
\* was called and whether the lister returned what it returned last time.
UpdateBloomBits ==
    \E r \in BloomListerResults, scope \in BloomScopes :
        LET out == update_bloom_bits(bloom_bits, r, scope)
        IN /\ bloom_bits' = out.bloom_bits
           /\ ret' = out.ret
           /\ trace' = out.calls
           /\ op' = [name |-> "update_bloom_bits",
                     arg |-> <<scope, DOMAIN bloom_bits,
                               SameListAgain("update_bloom_bits", r)>>]
           /\ UNCHANGED <<cache, listed, pending>>

GetOrSkipIfMissing ==
    \E bucket \in BloomBuckets, filter \in FilterDatabases, g \in GetterResults :
        LET out == get_or_skip_if_missing(bloom_bits, bucket, g, filter)
        IN /\ ret' = out.ret
           /\ trace' = out.calls
           /\ op' = [name |-> "get_or_skip_if_missing", arg |-> <<bucket, filter>>]
           /\ UNCHANGED <<bloom_bits, cache, listed, pending>>

NextBloom ==
    \/ UpdateBloomBits
    \/ GetOrSkipIfMissing

SpecBloom == Init /\ [][NextBloom]_vars

UpdateCacheBtree ==
    \E r \in NameListerResults :
        LET out == update_cache_btree(cache, r)
        IN /\ cache' = out.cache
           /\ ret' = out.ret
           /\ trace' = out.calls
           /\ op' = [name |-> "update_cache_btree",
                     arg |-> <<cache, SameListAgain("update_cache_btree", r)>>]
           /\ listed' = [name |-> "update_cache_btree", res |-> r]
           /\ UNCHANGED <<bloom_bits, pending>>

\* A consult that drops the bucket from the cache when its getter fails.
GetOrSkipIfBucketMissingEvicting ==
    \E bucket \in CacheBuckets, filter \in CacheFilters, g \in GetterResults :
        LET out == get_or_skip_if_bucket_missing(cache, bucket, g, filter)
        IN /\ ret' = out.ret
           /\ trace' = out.calls
           /\ op' = [name |-> "get_or_skip_if_bucket_missing", arg |-> <<bucket, filter>>]
           /\ cache' = IF out.ret.ok THEN cache ELSE cache \ {bucket}
           /\ UNCHANGED <<bloom_bits, listed, pending>>

GetOrSkipIfBucketMissing ==
    \E bucket \in CacheBuckets, filter \in CacheFilters, g \in GetterResults :
        LET out == get_or_skip_if_bucket_missing(cache, bucket, g, filter)
        IN /\ ret' = out.ret
           /\ trace' = out.calls
           /\ op' = [name |-> "get_or_skip_if_bucket_missing", arg |-> <<bucket, filter>>]
           /\ UNCHANGED <<bloom_bits, cache, listed, pending>>

NextCache ==
    \/ UpdateCacheBtree
    \/ GetOrSkipIfBucketMissing

SpecCache == Init /\ [][NextCache]_vars

\* A host uses one gate per code path: once it has called one of the two
\* strategies it stays with it. The two stores share nothing, so the calls of
\* one never change what the other does.
BloomCalls == {"none", "update_bloom_bits", "get_or_skip_if_missing"}

CacheCalls == {"none", "update_cache_btree", "get_or_skip_if_bucket_missing"}

NextGates ==
    \/ op.name \in BloomCalls /\ NextBloom
    \/ op.name \in CacheCalls /\ NextCache

SpecGates == Init /\ [][NextGates]_vars

\* A call of get_sub_buckets about to be made: its arguments and what the
\* fetcher will return.
\* The refresh seen from outside: the store is a plain container the caller
\* owns, and the library takes no lock. A refresh clears it, then blocks in the
\* lister, then inserts; a consult from another code path of the host may run
\* while the lister is out. pending.res is the reply the lister will give.
BeginUpdateBloomBits ==
    /\ pending.name = "none"
    /\ \E r \in BloomListerResults, scope \in BloomScopes :
           /\ bloom_bits' = bloom_bits_clear(bloom_bits)
           /\ pending' = [name |-> "update_bloom_bits", arg |-> <<scope>>,
                          before |-> DOMAIN bloom_bits, res |-> r]
           /\ op' = [name |-> "update_bloom_bits: get_bloom_bits", arg |-> <<scope>>]
           /\ trace' = <<>>
           /\ UNCHANGED <<cache, ret, listed>>

EndUpdateBloomBits ==
    /\ pending.name = "update_bloom_bits"
    /\ LET out == repopulate_bloom_bits(bloom_bits, pending.res, pending.arg[1])
       IN /\ bloom_bits' = out.bloom_bits
          /\ ret' = out.ret
          /\ trace' = out.calls
          /\ op' = [name |-> "update_bloom_bits",
                    arg |-> <<pending.arg[1], pending.before, FALSE>>]
          /\ pending' = NoPending
          /\ UNCHANGED <<cache, listed>>

BeginUpdateCacheBtree ==
    /\ pending.name = "none"
    /\ \E r \in NameListerResults :
           /\ cache' = cache_clear(cache)
           /\ pending' = [name |-> "update_cache_btree", arg |-> <<>>,
                          before |-> cache, res |-> r]
           /\ op' = [name |-> "update_cache_btree: list_buckets", arg |-> <<>>]
           /\ trace' = <<>>
           /\ UNCHANGED <<bloom_bits, ret, listed>>

EndUpdateCacheBtree ==
    /\ pending.name = "update_cache_btree"
    /\ LET out == repopulate_cache_btree(cache, pending.res)
       IN /\ cache' = out.cache
          /\ ret' = out.ret
          /\ trace' = out.calls
          /\ op' = [name |-> "update_cache_btree", arg |-> <<pending.before, FALSE>>]
          /\ listed' = [name |-> "update_cache_btree", res |-> pending.res]
          /\ pending' = NoPending
          /\ UNCHANGED bloom_bits

BloomStepCalls == BloomCalls \cup {"update_bloom_bits: get_bloom_bits"}

CacheStepCalls == CacheCalls \cup {"update_cache_btree: list_buckets"}

NextSteps ==
    \/ /\ op.name \in BloomStepCalls
       /\ \/ BeginUpdateBloomBits
          \/ EndUpdateBloomBits
          \/ GetOrSkipIfMissing
    \/ /\ op.name \in CacheStepCalls
       /\ \/ BeginUpdateCacheBtree
          \/ EndUpdateCacheBtree
          \/ GetOrSkipIfBucketMissing

SpecSteps == Init /\ [][NextSteps]_vars

InitSub ==
    /\ bloom_bits = EmptyMap
    /\ cache = {}
    /\ \E fetched \in FetchedResults, cfg \in SubFilters, push_down \in BOOLEAN,
          double_check \in BOOLEAN :
           op = [name |-> "call get_sub_buckets",
                 arg |-> <<TestBucket, fetched, cfg, push_down, double_check>>]
    /\ ret = Ok(<<>>)
    /\ trace = <<>>
    /\ listed = [name |-> "none", res |-> Ok(<<>>)]
    /\ pending = NoPending

GetSubBuckets ==
    /\ op.name = "call get_sub_buckets"
    /\ LET out == get_sub_buckets(op.arg[1], op.arg[2], op.arg[3], op.arg[4], op.arg[5])
       IN /\ ret' = out.ret
          /\ trace' = out.calls
    /\ op' = [op EXCEPT !.name = "get_sub_buckets"]
    /\ UNCHANGED <<bloom_bits, cache, listed, pending>>

NextSub == GetSubBuckets

SpecSub == InitSub /\ [][NextSub]_vars

\* The pushdown predicates a caller may build the closure with.
PushdownPredicates == [SubFilters -> BOOLEAN]

\* A call of the closure of get_sub_buckets_new about to be made: what it was
\* built with and its arguments.
InitSubNew ==
    /\ bloom_bits = EmptyMap
    /\ cache = {}
    /\ \E get_sub \in FetchedResults, pushdown \in PushdownPredicates,
          cfg \in SubFilters, double_check \in BOOLEAN :
           op = [name |-> "call get_sub_buckets_new",
                 arg |-> <<get_sub, pushdown, TestBucket, cfg, double_check>>]
    /\ ret = Ok(<<>>)
    /\ trace = <<>>
    /\ listed = [name |-> "none", res |-> Ok(<<>>)]
    /\ pending = NoPending

GetSubBucketsNew ==
    /\ op.name = "call get_sub_buckets_new"
    /\ LET out == get_sub_buckets_new(op.arg[1], op.arg[2], op.arg[3], op.arg[4], op.arg[5])
       IN /\ ret' = out.ret
          /\ trace' = out.calls
    /\ op' = [op EXCEPT !.name = "get_sub_buckets_new"]
    /\ UNCHANGED <<bloom_bits, cache, listed, pending>>

NextSubNew == GetSubBucketsNew

SpecSubNew == InitSubNew /\ [][NextSubNew]_vars

\* A call of the pushdown closure about to be made: the two weights it was
\* built with and the two estimates its estimators give for the config.
InitPushdown ==
    /\ bloom_bits = EmptyMap
    /\ cache = {}
    /\ \E estimate_ix_scan \in F32Vals, estimate_sq_scan \in F32Vals,
          ix_scan_cost \in F32Vals, sq_scan_cost \in F32Vals :
           op = [name |-> "call pushdown",
                 arg |-> <<estimate_ix_scan, estimate_sq_scan, ix_scan_cost, sq_scan_cost>>]
    /\ ret = Ok(<<>>)
    /\ trace = <<>>
    /\ listed = [name |-> "none", res |-> Ok(<<>>)]
    /\ pending = NoPending

Pushdown ==
    /\ op.name = "call pushdown"
    /\ ret' = pushdown_by_storage_new(op.arg[1], op.arg[2], op.arg[3], op.arg[4])
    /\ op' = [op EXCEPT !.name = "pushdown"]
    /\ UNCHANGED <<bloom_bits, cache, trace, listed, pending>>

NextPushdown == Pushdown

SpecPushdown == InitPushdown /\ [][NextPushdown]_vars

\* ------------------------------------------------------------- properties

\* What the last call recorded.
Decisions == CallsOf(trace, "bloom")

GetterCalls == CallsOf(trace, "getter")

\* Bit i of x, bit 0 the lowest.
RECURSIVE Bit(_, _)
Bit(x, i) == IF x = 0 THEN 0 ELSE IF i = 0 THEN x % 2 ELSE Bit(x \div 2, i - 1)

\* Every bit of q is a bit of stored, in both words.
Covers(stored, q) ==
    \A w \in 1..2 : \A i \in 0..127 :
        Bit(q.packed[w], i) = 1 => Bit(stored.packed[w], i) = 1

\* The word-wise OR the example stores for a bucket with several contributors.
BloomBitsOr(a, b) ==
    BloomBits(BitOr(a.packed[1], b.packed[1]), BitOr(a.packed[2], b.packed[2]))

\* The OR-union of the signatures of the filters in S.
RECURSIVE UnionOf(_)
UnionOf(S) ==
    IF S = {} THEN BloomBitsDefault
    ELSE LET f == CHOOSE x \in S : TRUE
         IN BloomBitsOr(db_hash(f), UnionOf(S \ {f}))

\* C1: for a bucket that is no key of the signature store, bloom_check
\* returns Missing whatever the filter and the other entries, and the gated
\* fetch returns Ok(empty) without invoking the getter.
C1_AbsentBucketMissing ==
    /\ \A b \in BloomBuckets \ DOMAIN bloom_bits : \A f \in FilterDatabases :
           bloom_check(bloom_bits, f, b).ret = "Missing"
    /\ (op.name = "get_or_skip_if_missing" /\ op.arg[1] \notin DOMAIN bloom_bits) =>
           /\ Len(Decisions) = 1
           /\ Decisions[1].res = "Missing"
           /\ GetterCalls = <<>>
           /\ ret.ok
           /\ ret.val = <<>>

\* An absent bucket consulted while the store holds two other buckets.
C1_Witness ==
    /\ op.name = "get_or_skip_if_missing"
    /\ op.arg[1] \notin DOMAIN bloom_bits
    /\ Cardinality(DOMAIN bloom_bits) = 2
    /\ op.arg[2] = FilterDatabase("other")
    /\ GetterCalls = <<>>

\* C2: the gated fetch invokes the getter exactly once, with the same bucket
\* and filter, and returns its result verbatim when the decision is MayExist;
\* it returns Ok(empty) without invoking the getter when the decision is
\* Missing; an error it returns is always the getter's.
C2_GatedFetch ==
    op.name = "get_or_skip_if_missing" =>
        /\ Len(Decisions) = 1
        /\ Decisions[1].arg = op.arg
        /\ Decisions[1].res = "MayExist" =>
               /\ Len(GetterCalls) = 1
               /\ GetterCalls[1].arg = op.arg
               /\ ret = GetterCalls[1].res
        /\ Decisions[1].res = "Missing" =>
               /\ GetterCalls = <<>>
               /\ ret.ok
               /\ ret.val = <<>>
        /\ ~ret.ok => (Len(GetterCalls) = 1 /\ GetterCalls[1].res = ret)

\* A MayExist decision whose getter fails: the error comes back.
C2_Witness ==
    /\ op.name = "get_or_skip_if_missing"
    /\ Len(Decisions) = 1
    /\ Decisions[1].res = "MayExist"
    /\ Len(GetterCalls) = 1
    /\ ~ret.ok

\* The store of the end-to-end scenario: X holds exactly the query's bits,
\* Y a strict superset, Z is absent.
ScenarioStore ==
    [b \in ListedBloomBuckets |->
        IF b = new_checked("pg_database")
        THEN BloomBits(\H333, \H634)
        ELSE BloomBits(BitOr(\H333, \H599), BitOr(\H634, \H3776))]

\* C3: with the comparator (stored AND q) = q, for a bucket of the store
\* bloom_check returns MayExist exactly when every bit of hash(filter) is set
\* in the stored signature and Missing otherwise; in the scenario X and Y give
\* MayExist and the absent Z gives Missing.
C3_IntersectionEqualsQuery ==
    /\ (op.name = "get_or_skip_if_missing" /\ op.arg[1] \in DOMAIN bloom_bits) =>
           /\ Len(Decisions) = 1
           /\ Len(CallsOf(trace, "hash")) = 1
           /\ Decisions[1].res \in {"MayExist", "Missing"}
           /\ Decisions[1].res = "MayExist" <=>
                  Covers(bloom_bits[op.arg[1]], CallsOf(trace, "hash")[1].res)
    /\ bloom_bits = ScenarioStore =>
           LET q == FilterDatabase("postgres")
           IN /\ bloom_check(bloom_bits, q, new_checked("pg_database")).ret = "MayExist"
              /\ bloom_check(bloom_bits, q, new_checked("pg_class")).ret = "MayExist"
              /\ bloom_check(bloom_bits, q, new_checked("pg_database_NOT_EXIST")).ret
                     = "Missing"

\* The scenario's store, Y consulted with the query: a strict superset.
C3_Witness ==
    /\ bloom_bits = ScenarioStore
    /\ op.name = "get_or_skip_if_missing"
    /\ op.arg = <<new_checked("pg_class"), FilterDatabase("postgres")>>
    /\ Decisions[1].res = "MayExist"

\* C4: no false negatives: when the signature stored for a bucket is the
\* OR-union of the signatures of a set of contributors, bloom_check returns
\* MayExist for each contributor and for every query whose bits are among the
\* union's, and the gated fetch invokes the getter.
C4_NoFalseNegatives ==
    /\ \A b \in DOMAIN bloom_bits : \A S \in SUBSET FilterDatabases :
           bloom_bits[b] = UnionOf(S) =>
               \A f \in FilterDatabases :
                   (f \in S \/ Covers(UnionOf(S), db_hash(f))) =>
                       bloom_check(bloom_bits, f, b).ret = "MayExist"
    /\ (/\ op.name = "get_or_skip_if_missing"
        /\ op.arg[1] \in DOMAIN bloom_bits
        /\ \E S \in SUBSET FilterDatabases :
               op.arg[2] \in S /\ bloom_bits[op.arg[1]] = UnionOf(S)) =>
           Len(GetterCalls) = 1

\* A false positive: the bucket's signature is the union of postgres and
\* template0, templateZ is asked, the getter is invoked and finds nothing.
C4_Witness ==
    /\ op.name = "get_or_skip_if_missing"
    /\ op.arg[1] \in DOMAIN bloom_bits
    /\ bloom_bits[op.arg[1]]
           = UnionOf({FilterDatabase("postgres"), FilterDatabase("template0")})
    /\ op.arg[2] = FilterDatabase("templateZ")
    /\ Len(GetterCalls) = 1
    /\ ret.ok
    /\ ret.val = <<>>

CacheAnswers == CallsOf(trace, "cache")

\* C5: the exact gate invokes the getter exactly once and returns its result
\* unchanged when the cache predicate answers true, and returns Ok(empty)
\* without invoking it when the predicate answers false; with the cache
\* {a, b}, consulting a delegates and consulting c does not.
C5_ExactGate ==
    op.name = "get_or_skip_if_bucket_missing" =>
        /\ Len(CacheAnswers) = 1
        /\ CacheAnswers[1].arg = <<op.arg[1]>>
        /\ CacheAnswers[1].res = TRUE =>
               /\ Len(GetterCalls) = 1
               /\ GetterCalls[1].arg = op.arg
               /\ ret = GetterCalls[1].res
        /\ CacheAnswers[1].res = FALSE =>
               /\ GetterCalls = <<>>
               /\ ret.ok
               /\ ret.val = <<>>
        /\ cache = {new_checked("pg_class"), new_checked("pg_database")} =>
               /\ op.arg[1] = new_checked("pg_class") => Len(GetterCalls) = 1
               /\ op.arg[1] = new_checked("pg_index") => GetterCalls = <<>>

\* The cache {a, b}, a consulted, the fetcher's rows returned.
C5_Witness ==
    /\ op.name = "get_or_skip_if_bucket_missing"
    /\ cache = {new_checked("pg_class"), new_checked("pg_database")}
    /\ op.arg[1] = new_checked("pg_class")
    /\ Len(GetterCalls) = 1
    /\ ret = Ok(<<"C">>)

\* C6: the getter is invoked for a bucket if and only if the most recent
\* refresh succeeded and its lister's list held the bucket's name.
C6_ExactMembership ==
    op.name = "get_or_skip_if_bucket_missing" =>
        (Len(GetterCalls) = 1 <=>
            /\ listed.name = "update_cache_btree"
            /\ listed.res.ok
            /\ \E i \in DOMAIN listed.res.val : listed.res.val[i] = op.arg[1].name)

\* A bucket skipped although the cache is not empty: its name was not listed.
C6_Witness ==
    /\ op.name = "get_or_skip_if_bucket_missing"
    /\ listed.name = "update_cache_btree"
    /\ listed.res.ok
    /\ Len(listed.res.val) = 2
    /\ op.arg[1].name \in ListedNames
    /\ GetterCalls = <<>>

FetchCalls == CallsOf(trace, "get_sub_buckets")

FilterCalls == CallsOf(trace, "filter")

\* C7: the sub-bucket fetcher is invoked with None when push_down is false
\* and with Some(filter_config) when it is true, whatever double_check is.
C7_FetchMode ==
    op.name = "get_sub_buckets" =>
        /\ Len(FetchCalls) = 1
        /\ FetchCalls[1].arg[1] = op.arg[1]
        /\ ~op.arg[4] => FetchCalls[1].arg[2] = None
        /\ op.arg[4] => FetchCalls[1].arg[2] = Some(op.arg[3])

\* Push-down without double check: the fetcher is given the config.
C7_Witness ==
    /\ op.name = "get_sub_buckets"
    /\ op.arg[4]
    /\ ~op.arg[5]
    /\ Len(FetchCalls) = 1
    /\ FetchCalls[1].arg[2] = Some(Filter(\H43, \H45))

\* C8: the local filter is applied to the fetched sequence exactly when
\* push_down is false or double_check is true, and its result is returned;
\* with push_down and no double_check it is not invoked and the fetched
\* sequence is returned verbatim: the five items stay five, and become
\* three in the other combinations for the range [0x43, 0x45].
C8_LocalFilter ==
    (op.name = "get_sub_buckets" /\ op.arg[2].ok) =>
        LET fetched == op.arg[2].val
            filter_config == op.arg[3]
            push_down == op.arg[4]
            double_check == op.arg[5]
        IN /\ ret.ok
           /\ (~push_down \/ double_check) =>
                  /\ Len(FilterCalls) = 1
                  /\ FilterCalls[1].arg = <<fetched, filter_config>>
                  /\ ret.val = FilterCalls[1].res
                  /\ \A i \in DOMAIN ret.val :
                         filter_config.id_lbi <= ret.val[i].id
                             /\ ret.val[i].id <= filter_config.id_ubi
           /\ (push_down /\ ~double_check) =>
                  /\ FilterCalls = <<>>
                  /\ ret.val = fetched
           /\ (fetched = TestItems /\ filter_config = Filter(\H43, \H45)) =>
                  Len(ret.val) = IF push_down /\ ~double_check THEN 5 ELSE 3

\* The five items fetched with push_down and no double_check: five returned.
C8_Witness ==
    /\ op.name = "get_sub_buckets"
    /\ op.arg[2] = Ok(TestItems)
    /\ op.arg[3] = Filter(\H43, \H45)
    /\ op.arg[4]
    /\ ~op.arg[5]
    /\ FilterCalls = <<>>
    /\ Len(ret.val) = 5

\* The two costs the closure compares.
IxCost == F32Mul(op.arg[3], op.arg[1])

SqCost == F32Mul(op.arg[4], op.arg[2])

\* The weights and the estimates are non-negative numbers: none is NaN.
NonNegativeInputs == \A i \in 1..4 : op.arg[i].k # "nan"

\* C9 as claimed: for non-negative weights and estimates the closure returns
\* true exactly when sequential_cost >= indexed_cost.
C9_AsClaimed ==
    (op.name = "pushdown" /\ NonNegativeInputs) =>
        (ret = TRUE <=> F32Ge(SqCost, IxCost))

\* C9 as amended: the closure returns false exactly when the sequential cost
\* is strictly smaller than the indexed cost, and true otherwise; that is
\* sequential_cost >= indexed_cost whenever neither cost is NaN, equal costs
\* included, and it is true when a cost is NaN (zero times infinity).
C9_PushdownUnlessSeqCheaper ==
    op.name = "pushdown" =>
        /\ ret = FALSE <=> F32Lt(SqCost, IxCost)
        /\ (IxCost.k # "nan" /\ SqCost.k # "nan") =>
               (ret = TRUE <=> F32Ge(SqCost, IxCost))
        /\ (IxCost.k # "nan" /\ SqCost = IxCost) => ret = TRUE
        /\ (IxCost.k = "nan" \/ SqCost.k = "nan") => ret = TRUE

\* Equal finite costs, reached with different weights: push-down is chosen.
C9_Witness ==
    /\ op.name = "pushdown"
    /\ IxCost = Fin(2)
    /\ SqCost = Fin(2)
    /\ op.arg[3] # op.arg[4]
    /\ ret = TRUE

\* The list the signature-pair lister returned to the last refresh.
FetchedPairs == CallsOf(trace, "get_bloom_bits")[1].res.val

\* C10: a successful update_bloom_bits returns the number of distinct keys
\* of the fetched list: a repeated key counts once, so the count is at most
\* the list's length and is the number of entries of the store afterwards.
C10_CountDistinctKeys ==
    (op.name = "update_bloom_bits" /\ ret.ok) =>
        /\ ret.val = Cardinality({FetchedPairs[i][1] : i \in DOMAIN FetchedPairs})
        /\ ret.val <= Len(FetchedPairs)
        /\ ret.val = Cardinality(DOMAIN bloom_bits)

\* The example's list: the same key twice, counted once.
C10_Witness ==
    /\ op.name = "update_bloom_bits"
    /\ ret.ok
    /\ Len(FetchedPairs) = 2
    /\ FetchedPairs[1][1] = FetchedPairs[2][1]
    /\ FetchedPairs[1][2] # FetchedPairs[2][2]
    /\ ret.val = 1

\* The index of the last pair of v whose key is k.
LastIndexOf(v, k) ==
    CHOOSE i \in DOMAIN v :
        v[i][1] = k /\ \A j \in DOMAIN v : v[j][1] = k => j <= i

\* C11: when the fetched list holds a key several times, the signature stored
\* for it after the refresh is the one of its last occurrence: not the first
\* occurrence's, not a merge of the occurrences.
C11_LastWriteWins ==
    (op.name = "update_bloom_bits" /\ ret.ok) =>
        \A k \in DOMAIN bloom_bits :
            /\ \E i \in DOMAIN FetchedPairs : FetchedPairs[i][1] = k
            /\ bloom_bits[k] = FetchedPairs[LastIndexOf(FetchedPairs, k)][2]

\* The same key twice, first with the wider signature: the narrower, later
\* one is stored, which is neither the first nor the OR of the two.
C11_Witness ==
    /\ op.name = "update_bloom_bits"
    /\ ret.ok
    /\ Len(FetchedPairs) = 2
    /\ FetchedPairs[1][1] = FetchedPairs[2][1]
    /\ FetchedPairs[1][2] = BloomBits(BitOr(\H333, \H599), BitOr(\H634, \H3776))
    /\ FetchedPairs[2][2] = BloomBits(\H333, \H634)
    /\ bloom_bits[FetchedPairs[1][1]] = FetchedPairs[2][2]
    /\ bloom_bits[FetchedPairs[1][1]] # FetchedPairs[1][2]
    /\ bloom_bits[FetchedPairs[1][1]] # BloomBitsOr(FetchedPairs[1][2], FetchedPairs[2][2])

\* The list the bucket lister returned to the last refresh.
FetchedNames == CallsOf(trace, "list_buckets")[1].res.val

\* C12: a successful update_cache_btree leaves the cache equal to the set of
\* the distinct names of the lister's list, each made a Bucket as it is, and
\* returns their number: a name inserted earlier in the refresh is not counted.
C12_CacheIsListedNames ==
    (op.name = "update_cache_btree" /\ ret.ok) =>
        /\ cache = {[name |-> FetchedNames[i]] : i \in DOMAIN FetchedNames}
        /\ ret.val = Cardinality({FetchedNames[i] : i \in DOMAIN FetchedNames})
        /\ ret.val = Cardinality(cache)

\* A name listed twice: one bucket, counted once.
C12_Witness ==
    /\ op.name = "update_cache_btree"
    /\ ret.ok
    /\ Len(FetchedNames) = 2
    /\ FetchedNames[1] = FetchedNames[2]
    /\ ret.val = 1
    /\ cache = {[name |-> FetchedNames[1]]}

\* C13: refresh is a full replacement: after a successful update_bloom_bits
\* the keys of the store are exactly the keys of the fetched list and every
\* signature is one the list gives for its key, whatever the store held
\* before; a key held before survives only if the list has it.
C13_FullReplacement ==
    (op.name = "update_bloom_bits" /\ ret.ok) =>
        /\ DOMAIN bloom_bits = {FetchedPairs[i][1] : i \in DOMAIN FetchedPairs}
        /\ \A k \in DOMAIN bloom_bits :
               \E i \in DOMAIN FetchedPairs :
                   FetchedPairs[i][1] = k /\ FetchedPairs[i][2] = bloom_bits[k]
        /\ \A k \in op.arg[2] :
               k \in DOMAIN bloom_bits => \E i \in DOMAIN FetchedPairs : FetchedPairs[i][1] = k

\* The store held two buckets; the new list has one of them: one is left.
C13_Witness ==
    /\ op.name = "update_bloom_bits"
    /\ ret.ok
    /\ Cardinality(op.arg[2]) = 2
    /\ Len(FetchedPairs) = 1
    /\ DOMAIN bloom_bits = {FetchedPairs[1][1]}

\* The lister call of the last refresh.
BloomListerCalls == CallsOf(trace, "get_bloom_bits")

NameListerCalls == CallsOf(trace, "list_buckets")

\* C14: when the lister returns an error, update_bloom_bits and
\* update_cache_btree return that same error and leave the store empty,
\* whatever it held before: nothing is restored, nothing is inserted.
C14_ErrorLeavesCleared ==
    /\ (op.name = "update_bloom_bits" /\ ~BloomListerCalls[1].res.ok) =>
           /\ ~ret.ok
           /\ ret = BloomListerCalls[1].res
           /\ bloom_bits = EmptyMap
    /\ (op.name = "update_cache_btree" /\ ~NameListerCalls[1].res.ok) =>
           /\ ~ret.ok
           /\ ret = NameListerCalls[1].res
           /\ cache = {}
    /\ (op.name \in {"update_bloom_bits", "update_cache_btree"} /\ ~ret.ok) =>
           ~trace[1].res.ok

\* A signature store that held two buckets, lost to a lister that could
\* not connect.
C14_Witness ==
    /\ op.name = "update_bloom_bits"
    /\ Cardinality(op.arg[2]) = 2
    /\ ret = Err(UnableToConnect("Unable to connect to postgres"))
    /\ bloom_bits = EmptyMap

\* The same refresh called twice in a row, its lister returning the same.
SameRefreshTwice(name) ==
    /\ op.name = name
    /\ op'.name = name
    /\ trace'[1].res.ok = trace[1].res.ok
    /\ trace'[1].res.val = trace[1].res.val

\* C15: refresh is idempotent when the source is stable: a second
\* update_bloom_bits or update_cache_btree whose lister returns the same list
\* leaves the store as the first left it and returns the same count.
C15_RefreshIdempotent ==
    [][/\ SameRefreshTwice("update_bloom_bits") =>
              (bloom_bits' = bloom_bits /\ ret'.ok = ret.ok /\ ret'.val = ret.val)
       /\ SameRefreshTwice("update_cache_btree") =>
              (cache' = cache /\ ret'.ok = ret.ok /\ ret'.val = ret.val)]_vars

\* A second signature refresh with the same two-pair list: the count is two
\* again, not zero.
C15_Witness ==
    /\ op.name = "update_bloom_bits"
    /\ op.arg[3]
    /\ ret.ok
    /\ Len(FetchedPairs) = 2
    /\ Cardinality(DOMAIN bloom_bits) = 2
    /\ ret.val = 2

\* C16: get_sub_buckets invokes the fetcher exactly once in every combination
\* of push_down and double_check; when the fetcher fails its error is
\* returned as it is, the local filter is not invoked and the fetch is not
\* tried again.
C16_OneFetchNoRetry ==
    op.name = "get_sub_buckets" =>
        /\ Len(FetchCalls) = 1
        /\ FetchCalls[1].res = op.arg[2]
        /\ ~op.arg[2].ok =>
               /\ ~ret.ok
               /\ ret = op.arg[2]
               /\ FilterCalls = <<>>
               /\ Len(trace) = 1
        /\ ~ret.ok => ~op.arg[2].ok

\* A fetch that fails where the local filter would have run.
C16_Witness ==
    /\ op.name = "get_sub_buckets"
    /\ ~op.arg[4]
    /\ op.arg[5]
    /\ ret = Err(UnableToConnect("Unable to connect to postgres"))
    /\ Len(trace) = 1

\* C17: each refresh invokes its lister exactly once, whether the lister
\* succeeds or fails, and the store is empty while the lister runs.
C17_ListerOnceAfterClear ==
    /\ op.name = "update_bloom_bits" =>
           /\ Len(trace) = 1
           /\ Len(BloomListerCalls) = 1
           /\ BloomListerCalls[1].arg = <<op.arg[1]>>
           /\ BloomListerCalls[1].store = EmptyMap
    /\ op.name = "update_cache_btree" =>
           /\ Len(trace) = 1
           /\ Len(NameListerCalls) = 1
           /\ NameListerCalls[1].store = {}

\* A bucket set of two names, refreshed by a lister that fails: the lister
\* ran once, over an empty set.
C17_Witness ==
    /\ op.name = "update_cache_btree"
    /\ Cardinality(op.arg[1]) = 2
    /\ ~ret.ok
    /\ Len(NameListerCalls) = 1
    /\ NameListerCalls[1].store = {}

HashCalls == CallsOf(trace, "hash")

CheckCalls == CallsOf(trace, "check")

\* The keys of a list of (bucket, signature) pairs.
KeysOf(v) == {v[i][1] : i \in DOMAIN v}

\* The buckets of a list of names.
BucketsOf(v) == {new_checked(v[i]) : i \in DOMAIN v}

\* A consult run while a refresh waits for its lister finds the store empty.
MidRefreshSeesEmpty ==
    /\ pending.name = "update_bloom_bits" =>
           /\ bloom_bits = EmptyMap
           /\ op.name = "get_or_skip_if_missing" =>
                  /\ Decisions[1].res = "Missing"
                  /\ CheckCalls = <<>>
                  /\ GetterCalls = <<>>
                  /\ ret.ok
                  /\ ret.val = <<>>
    /\ pending.name = "update_cache_btree" =>
           /\ cache = {}
           /\ op.name = "get_or_skip_if_bucket_missing" =>
                  /\ CacheAnswers[1].res = FALSE
                  /\ GetterCalls = <<>>
                  /\ ret.ok
                  /\ ret.val = <<>>

\* A consult that ran right before a refresh began found every bucket the
\* store held before that refresh.
ConsultThenRefresh ==
    /\ (/\ op.name = "get_or_skip_if_missing"
        /\ pending.name = "none"
        /\ pending'.name = "update_bloom_bits") =>
           (op.arg[1] \in pending'.before <=> Len(CheckCalls) = 1)
    /\ (/\ op.name = "get_or_skip_if_bucket_missing"
        /\ pending.name = "none"
        /\ pending'.name = "update_cache_btree") =>
           (op.arg[1] \in pending'.before <=> CacheAnswers[1].res)

\* A consult that runs right after a refresh returned finds every bucket that
\* refresh listed.
RefreshThenConsult ==
    /\ (/\ op.name = "update_bloom_bits"
        /\ ret.ok
        /\ op'.name = "get_or_skip_if_missing") =>
           (op'.arg[1] \in KeysOf(FetchedPairs) <=> Len(CheckCalls') = 1)
    /\ (/\ op.name = "update_cache_btree"
        /\ ret.ok
        /\ op'.name = "get_or_skip_if_bucket_missing") =>
           (op'.arg[1] \in BucketsOf(FetchedNames) <=> CacheAnswers'[1].res)

Consults == {"get_or_skip_if_missing", "get_or_skip_if_bucket_missing"}

\* The same consult called twice in a row.
SameConsultTwice(name) ==
    /\ op.name = name
    /\ op'.name = name
    /\ op'.arg = op.arg

\* C19: consulting never changes a store: get_or_skip_if_missing (with its
\* bloom_check) and get_or_skip_if_bucket_missing leave the signature store
\* and the bucket set as they were whatever the decision and whatever the
\* getter returns; the decision is that of the store as it stands, so two
\* consults of the same bucket and filter with no refresh between them decide
\* the same.
C19_ConsultChangesNoStore ==
    /\ [][/\ op'.name \in Consults => (bloom_bits' = bloom_bits /\ cache' = cache)
          /\ SameConsultTwice("get_or_skip_if_missing") =>
                 Decisions'[1].res = Decisions[1].res
          /\ SameConsultTwice("get_or_skip_if_bucket_missing") =>
                 CacheAnswers'[1].res = CacheAnswers[1].res]_vars
    /\ [](op.name = "get_or_skip_if_missing" =>
              Decisions[1].res = bloom_check(bloom_bits, op.arg[2], op.arg[1]).ret)
    /\ [](op.name = "get_or_skip_if_bucket_missing" =>
              CacheAnswers[1].res = f_cache(cache, op.arg[1]))

\* A consult that delegated to a getter that failed: the store of two
\* signatures still holds for the bucket the signature the comparator saw.
C19_Witness ==
    /\ op.name = "get_or_skip_if_missing"
    /\ Cardinality(DOMAIN bloom_bits) = 2
    /\ ~ret.ok
    /\ Len(GetterCalls) = 1
    /\ CallsOf(trace, "check")[1].arg[1] = bloom_bits[op.arg[1]]

\* C20: bloom_check passes the comparator (stored signature, computed query
\* signature) in that order; for a bucket of the store it invokes the hash
\* function once and the comparator once, for an absent bucket neither. With
\* the comparator (stored AND q) = q the order matters: stored A|B against
\* query A is MayExist, the two swapped is Missing.
C20_ComparatorArgumentOrder ==
    op.name = "get_or_skip_if_missing" =>
        IF op.arg[1] \in DOMAIN bloom_bits
        THEN /\ Len(HashCalls) = 1
             /\ HashCalls[1].arg = <<op.arg[2]>>
             /\ HashCalls[1].res = db_hash(op.arg[2])
             /\ Len(CheckCalls) = 1
             /\ CheckCalls[1].arg = <<bloom_bits[op.arg[1]], HashCalls[1].res>>
             /\ Decisions[1].res = CheckCalls[1].res
             /\ (/\ CheckCalls[1].arg[1] = BloomBits(BitOr(\H333, \H599), BitOr(\H634, \H3776))
                 /\ CheckCalls[1].arg[2] = BloomBits(\H333, \H634)) =>
                    /\ CheckCalls[1].res = "MayExist"
                    /\ db_check(CheckCalls[1].arg[2], CheckCalls[1].arg[1]) = "Missing"
        ELSE /\ HashCalls = <<>>
             /\ CheckCalls = <<>>

\* Stored A|B consulted with a query whose signature is A: MayExist, where the
\* swapped comparison would have said Missing.
C20_Witness ==
    /\ op.name = "get_or_skip_if_missing"
    /\ Len(CheckCalls) = 1
    /\ CheckCalls[1].arg[1] = BloomBits(BitOr(\H333, \H599), BitOr(\H634, \H3776))
    /\ CheckCalls[1].arg[2] = BloomBits(\H333, \H634)
    /\ Decisions[1].res = "MayExist"
    /\ db_check(CheckCalls[1].arg[2], CheckCalls[1].arg[1]) = "Missing"

PushdownCalls == CallsOf(trace, "pushdown")

\* What get_sub_buckets gives for the closure's arguments when push_down is
\* the predicate's answer for the config.
DirectCall ==
    get_sub_buckets(op.arg[3], op.arg[1], op.arg[4], op.arg[2][op.arg[4]], op.arg[5])

\* C21: the closure returned by get_sub_buckets_new behaves like
\* get_sub_buckets called with push_down = pushdown(cfg) and the same
\* double_check: it evaluates the pushdown predicate once, on cfg, before the
\* fetch; the fetcher gets Some(cfg) exactly when the predicate said true;
\* the calls that follow and the result are those of get_sub_buckets.
C21_ClosureIsGetSubBuckets ==
    op.name = "get_sub_buckets_new" =>
        /\ Len(PushdownCalls) = 1
        /\ trace[1].fn = "pushdown"
        /\ trace[1].arg = <<op.arg[4]>>
        /\ trace[1].res = op.arg[2][op.arg[4]]
        /\ Len(FetchCalls) = 1
        /\ FetchCalls[1].arg[2] =
               IF op.arg[2][op.arg[4]] THEN Some(op.arg[4]) ELSE None
        /\ Len(trace) = 1 + Len(DirectCall.calls)
        /\ Tail(trace) = DirectCall.calls
        /\ ret.ok = DirectCall.ret.ok
        /\ ret.val = DirectCall.ret.val

\* The predicate says true for this config and false for another, and
\* double_check is false: the five items come back as fetched with the
\* filter pushed down, where push_down = double_check would have fetched all
\* and filtered locally.
C21_Witness ==
    /\ op.name = "get_sub_buckets_new"
    /\ op.arg[1] = Ok(TestItems)
    /\ op.arg[4] = Filter(\H43, \H45)
    /\ op.arg[2][op.arg[4]]
    /\ ~op.arg[2][Filter(0, 0)]
    /\ ~op.arg[5]
    /\ FetchCalls[1].arg[2] = Some(op.arg[4])
    /\ FilterCalls = <<>>
    /\ ret.ok
    /\ ret.val = TestItems

====
